---- MODULE Spec2Model ----
(***************************************************************************)
(* Model of go/internal/feast/transformation/transformation_service.go:    *)
(*   - ByteSliceWriter (Write, Seek): the seekable in-memory byte sink;    *)
(*   - grpcTransformationService.GetTransformation: record construction,   *)
(*     serialization into the sink, dial, call, deferred release;          *)
(*   - ExtractTransformationResponse: decode and reconciliation.           *)
(* SpecSink drives a ByteSliceWriter with arbitrary Write/Seek calls, Spec  *)
(* runs one GetTransformation invocation (SpecLive: with fair scheduling), *)
(* SpecConc interleaves several invocations on one service.                *)
(* The code that prepares the request values is not part of these files    *)
(* (only its tests are): SpecCoerce models repeatedValue.UnmarshalJSON and *)
(* typecastToEntitySchemaType, SpecEntities models GetEntityKeyTypeMaps    *)
(* over model.NewEntityFromProto, after the specification's section 4.5.   *)
(***************************************************************************)
EXTENDS Integers, Sequences, FiniteSets, TLC

VARIABLES
    w,          \* SpecSink: the ByteSliceWriter under test, [buf, offset]
    last,       \* SpecSink: the last call on w with its arguments, pre-state and results
    sinkPanic,  \* SpecSink: TRUE once a Write has panicked (the goroutine is gone)
    appended,   \* SpecSink: the slices written so far, joined, until the first Seek
    in,         \* Spec: the arguments of the GetTransformation invocation
    pc,         \* Spec: the line GetTransformation is at
    inputFields,    \* Spec: local inputFields
    inputColumns,   \* Spec: local inputColumns
    reqLeft,    \* Spec: keys of requestData the range loop has not visited yet
    entLeft,    \* Spec: keys of entityRows the range loop has not visited yet
    inputRecord,    \* Spec: local inputRecord, with its release count
    arrowWriter,    \* Spec: local arrowWriter, the ipc.FileWriter over the sink
    req,        \* Spec: the TransformFeaturesRequest, once built
    conn,       \* Spec: the connection: state, dials, closes
    calls,      \* Spec: number of TransformFeatures calls issued
    ctx,        \* Spec: the caller's context: "live", "cancelled" or "expired"
    transportErr,   \* Spec: the error the transport produced, if any
    res,        \* Spec: the response payload (res.TransformationOutput.GetArrowValue())
    defers,     \* Spec: the stack of deferred calls
    exRes,      \* Spec: what ExtractTransformationResponse came back with
    ret,        \* Spec: what GetTransformation returned, or that it panicked
    service,    \* SpecConc: the grpcTransformationService, [endpoint, project]
    registry,   \* SpecConc: the registry's feature-view metadata, by view
    procs,      \* SpecConc: the local variables of each invocation
    sinks,      \* SpecConc: the ByteSliceWriter objects allocated so far, by address
    conns,      \* SpecConc: the connections dialled so far, by address
    u,          \* SpecCoerce: the repeatedValue being filled and narrowed
    coerced,    \* SpecCoerce: the last call on u: arguments, u before it, error
    cachedEntities,     \* SpecEntities: registry.CachedEntities, by project and name
    entityKeyTypeMap    \* SpecEntities: what GetEntityKeyTypeMaps returned, once called

sinkVars == <<w, last, sinkPanic, appended>>
gtVars == <<in, pc, inputFields, inputColumns, reqLeft, entLeft, inputRecord, arrowWriter, req,
            conn, calls, ctx, transportErr, res, defers, exRes, ret>>
concVars == <<service, registry, procs, sinks, conns>>
serverVars == <<u, coerced, cachedEntities, entityKeyTypeMap>>
vars == <<sinkVars, gtVars, concVars, serverVars>>

(***************************************************************************)
(* Bounds of the sink model.                                               *)
(***************************************************************************)
MaxBuf == 3        \* longest buffer the Write calls may build
MaxWrite == 2      \* longest slice handed to one Write
MaxOff == 4        \* seek offsets range over -MaxOff..MaxOff

\* whence values of package io
SeekStart == 0
SeekCurrent == 1
SeekEnd == 2
BadWhence == 3     \* any value outside io.SeekStart..io.SeekEnd

Bytes == {1, 2}    \* payload bytes; 0 is the zero byte make([]byte, n) fills with

NoErr == "nil"
ErrInvalidSeek == "invalid seek: new offset out of range"
ErrSeekMode == "unsupported seek mode"

Max(a, b) == IF a >= b THEN a ELSE b

Zeros(n) == [i \in 1..n |-> 0]

SeqsUpTo(S, n) == UNION {[1..k -> S] : k \in 0..n}

NewByteSliceWriter == [buf |-> <<>>, offset |-> 0]

(***************************************************************************)
(* w.buf[w.offset:] panics unless 0 <= offset <= len(buf).                 *)
(***************************************************************************)
SliceFromPanics(s, low) == low < 0 \/ low > Len(s)

(***************************************************************************)
(* ByteSliceWriter.Write.  Result: the sink afterwards, n, and whether the *)
(* slice expression panicked (then nothing was written).                   *)
(***************************************************************************)
\* Variant that ignores the cursor's place and always appends.
WriteAtEnd(s, p) ==
    [w |-> [buf |-> s.buf \o p, offset |-> s.offset + Len(p)],
     n |-> Len(p), err |-> NoErr, panic |-> FALSE]

Write(s, p) ==
    IF SliceFromPanics(s.buf, s.offset)
    THEN [w |-> s, n |-> 0, err |-> NoErr, panic |-> TRUE]
    ELSE LET capacity == Len(p)
             room == Len(s.buf) - s.offset
             grown == IF room < capacity
                      THEN s.buf \o Zeros(capacity - room)
                      ELSE s.buf
             copied == [i \in 1..Len(grown) |->
                          IF i > s.offset /\ i <= s.offset + capacity
                          THEN p[i - s.offset]
                          ELSE grown[i]]
         IN [w |-> [buf |-> copied, offset |-> s.offset + capacity],
             n |-> capacity, err |-> NoErr, panic |-> FALSE]

(***************************************************************************)
(* ByteSliceWriter.Seek.  Result: the sink afterwards, the returned offset *)
(* and the returned error.                                                 *)
(***************************************************************************)
OutOfRange(s, n) == n < 0 \/ n > Len(s.buf)

\* Variant of lines 185-188: the cursor is moved before the range is checked.
SeekFromStartMovingFirst(s, offset) ==
    IF s.offset # offset /\ OutOfRange(s, offset)
    THEN [w |-> [s EXCEPT !.offset = offset], ret |-> 0, err |-> ErrInvalidSeek]
    ELSE [w |-> [s EXCEPT !.offset = offset], ret |-> offset, err |-> NoErr]

SeekFromStart(s, offset) ==
    IF s.offset # offset /\ OutOfRange(s, offset)
    THEN [w |-> s, ret |-> 0, err |-> ErrInvalidSeek]
    ELSE [w |-> [s EXCEPT !.offset = offset], ret |-> offset, err |-> NoErr]

SeekFromCurrent(s, offset) ==
    LET newOffset == s.offset + offset
    IN IF newOffset # offset /\ OutOfRange(s, newOffset)
       THEN [w |-> s, ret |-> 0, err |-> ErrInvalidSeek]
       ELSE [w |-> [s EXCEPT !.offset = s.offset + offset],
             ret |-> s.offset + offset, err |-> NoErr]

SeekFromEnd(s, offset) ==
    LET newOffset == Len(s.buf) + offset
    IN IF newOffset # offset /\ OutOfRange(s, newOffset)
       THEN [w |-> s, ret |-> 0, err |-> ErrInvalidSeek]
       ELSE [w |-> [s EXCEPT !.offset = offset], ret |-> offset, err |-> NoErr]

Seek(s, offset, whence) ==
    CASE whence = SeekStart -> SeekFromStart(s, offset)
      [] whence = SeekCurrent -> SeekFromCurrent(s, offset)
      [] whence = SeekEnd -> SeekFromEnd(s, offset)
      [] OTHER -> [w |-> s, ret |-> 0, err |-> ErrSeekMode]

(***************************************************************************)
(* SpecSink: a fresh ByteSliceWriter driven by arbitrary calls.            *)
(***************************************************************************)
NoCall == [op |-> "none", p |-> <<>>, offset |-> 0, whence |-> 0,
           pre |-> NewByteSliceWriter, ret |-> 0, err |-> NoErr, panic |-> FALSE]

\* Nothing written yet, and no Seek called.
NoWrites == [onlyWrites |-> TRUE, bytes |-> <<>>]

\* No GetTransformation invocation runs while the sink is exercised alone.
GtIdle ==
    /\ in = [numRows |-> 0] /\ pc = "idle"
    /\ inputFields = <<>> /\ inputColumns = <<>>
    /\ reqLeft = {} /\ entLeft = {}
    /\ inputRecord = [built |-> FALSE] /\ req = [built |-> FALSE]
    /\ arrowWriter = [started |-> FALSE]
    /\ conn = [state |-> "none", target |-> "", dials |-> 0, closes |-> 0]
    /\ calls = 0 /\ ctx = "live" /\ transportErr = NoErr
    /\ res = <<>> /\ defers = <<>>
    /\ exRes = [kind |-> "none"] /\ ret = [kind |-> "none"]

\* No service with concurrent invocations exists in SpecSink and Spec.
ConcIdle ==
    /\ service = <<>> /\ registry = <<>>
    /\ procs = <<>> /\ sinks = <<>> /\ conns = <<>>

\* No request value is being prepared.
CoerceIdle == u = <<>> /\ coerced = [op |-> "idle"]

\* No entity key types are asked for.
EntitiesIdle == cachedEntities = <<>> /\ entityKeyTypeMap = [called |-> FALSE]

SinkInit ==
    /\ w = NewByteSliceWriter
    /\ last = NoCall
    /\ sinkPanic = FALSE
    /\ appended = NoWrites
    /\ GtIdle
    /\ ConcIdle
    /\ CoerceIdle
    /\ EntitiesIdle

SinkWrite(p) ==
    /\ ~sinkPanic
    /\ Max(Len(w.buf), w.offset + Len(p)) <= MaxBuf \/ SliceFromPanics(w.buf, w.offset)
    /\ LET r == Write(w, p)
       IN /\ w' = r.w
          /\ sinkPanic' = r.panic
          /\ appended' = IF appended.onlyWrites
                         THEN [appended EXCEPT !.bytes = @ \o p]
                         ELSE appended
          /\ last' = [op |-> "Write", p |-> p, offset |-> 0, whence |-> 0,
                      pre |-> w, ret |-> r.n, err |-> r.err, panic |-> r.panic]
    /\ UNCHANGED <<gtVars, concVars, serverVars>>

SinkSeek(offset, whence) ==
    /\ ~sinkPanic
    /\ LET r == Seek(w, offset, whence)
       IN /\ w' = r.w
          /\ sinkPanic' = FALSE
          /\ appended' = [onlyWrites |-> FALSE, bytes |-> <<>>]
          /\ last' = [op |-> "Seek", p |-> <<>>, offset |-> offset, whence |-> whence,
                      pre |-> w, ret |-> r.ret, err |-> r.err, panic |-> FALSE]
    /\ UNCHANGED <<gtVars, concVars, serverVars>>

SinkNext ==
    \/ \E p \in SeqsUpTo(Bytes, MaxWrite) : SinkWrite(p)
    \/ \E offset \in -MaxOff..MaxOff, whence \in {SeekStart, SeekCurrent, SeekEnd, BadWhence} :
          SinkSeek(offset, whence)

SpecSink == SinkInit /\ [][SinkNext]_vars

(***************************************************************************)
(* Claims about the ByteSliceWriter, checked under SpecSink.               *)
(***************************************************************************)
SeekModes == {SeekStart, SeekCurrent, SeekEnd}

\* The absolute offset a Seek call asks for, relative to its mode.
AbsTarget(c) ==
    CASE c.whence = SeekStart -> c.offset
      [] c.whence = SeekCurrent -> c.pre.offset + c.offset
      [] c.whence = SeekEnd -> Len(c.pre.buf) + c.offset
      [] OTHER -> c.pre.offset

IsSeek(c) == c.op = "Seek" /\ c.whence \in SeekModes

\* C3: on a sink whose buffer has length L, Seek(0, SeekStart) followed by
\* Seek(0, SeekEnd) returns offset L and leaves the cursor at L.
C3_SeekStartThenSeekEnd ==
    [][(/\ last.op = "Seek" /\ last.whence = SeekStart /\ last.offset = 0
        /\ last.err = NoErr
        /\ last'.op = "Seek" /\ last'.whence = SeekEnd /\ last'.offset = 0
        /\ last'.pre = w)
       => (/\ last'.err = NoErr
           /\ last'.ret = Len(w.buf)
           /\ w'.offset = Len(w.buf))]_vars

\* C4: a Seek whose resulting absolute offset is negative or beyond len(buf),
\* and which is not a zero-delta seek, returns the out-of-range error.
C4_OutOfRangeSeekFails ==
    (/\ IsSeek(last)
     /\ OutOfRange(last.pre, AbsTarget(last))
     /\ AbsTarget(last) # last.pre.offset)
    => last.err = ErrInvalidSeek

\* C5: a successful Seek returns the new absolute offset (offset, old cursor +
\* offset, or len(buf) + offset by mode) and the cursor equals that offset.
C5_SeekReturnsAbsoluteOffset ==
    (IsSeek(last) /\ last.err = NoErr)
    => (last.ret = AbsTarget(last) /\ w.offset = last.ret)

\* C6: a Seek request that leaves the cursor unchanged always succeeds.
C6_ZeroDeltaSeekSucceeds ==
    (IsSeek(last) /\ AbsTarget(last) = last.pre.offset)
    => last.err = NoErr

\* C7: Write never panics, returns (len(p), nil), leaves the buffer with
\* length max(len(buf), cursor + len(p)) and advances the cursor by len(p).
C7_WriteNeverFails ==
    last.op = "Write"
    => (/\ ~last.panic
        /\ last.ret = Len(last.p)
        /\ last.err = NoErr
        /\ Len(w.buf) = Max(Len(last.pre.buf), last.pre.offset + Len(last.p))
        /\ w.offset = last.pre.offset + Len(last.p))

(***************************************************************************)
(* Data of one GetTransformation invocation.                               *)
(*                                                                         *)
(* A name is the sequence of its "__"-separated segments, so that          *)
(* strings.Split(name, "__") is the name itself: <<"ns", "feat1">> is      *)
(* "ns__feat1", <<"f">> is "f".  A Go slice that may be nil is a record    *)
(* [isNil, elems].  An arrow column is [type, vals].                       *)
(***************************************************************************)
MaxRows == 1        \* numRows ranges over 0..MaxRows, and the scenario's 10
MaxFeatures == 2    \* the features argument holds up to this many vectors
MaxBatches == 2     \* a served file holds up to this many record batches
ScenarioRows == 10  \* the row count of the end-to-end scenario

NilSlice == [isNil |-> TRUE, elems |-> <<>>]
Slice(elems) == [isNil |-> FALSE, elems |-> elems]

Iota(n) == [i \in 1..n |-> i - 1]

Int64Column(vals) == [type |-> "int64", vals |-> vals]

\* The k-th input feature vector; the first is the scenario's "f" holding 0..n-1.
FeatureNames == <<"f", "g", "h", "k">>
InputVector(k, n) ==
    [Name |-> <<FeatureNames[k]>>,
     Values |-> Int64Column([i \in 1..n |-> (i - 1) + 10 * (k - 1)])]

RequestNames == {"r1", "r2"}
EntityNames == {"e1"}

\* A RepeatedValue proto: n values of one kind; "unsupported" stands for a value
\* the converter has no arrow type for.
RepeatedValue(kind, n) == [kind |-> kind, Val |-> Iota(n)]
ValueKinds == {"int64", "unsupported"}

ValueMaps(names, n) ==
    UNION {[keys -> {RepeatedValue(k, n) : k \in ValueKinds}] : keys \in SUBSET names}

NoProjection == [declared |-> FALSE, Features |-> <<>>]
Projection(features) == [declared |-> TRUE, Features |-> features]
FeatureViews ==
    {[Name |-> "odfv", Projection |-> p] :
        p \in {NoProjection, Projection(<<[Name |-> <<"feat1">>]>>)}}

InvocationsOf(n) ==
    {[featureView |-> fv, requestData |-> rd, entityRows |-> er,
      features |-> [k \in 1..nf |-> InputVector(k, n)],
      numRows |-> n, fullFeatureNames |-> full] :
        fv \in FeatureViews,
        rd \in ValueMaps(RequestNames, n), er \in ValueMaps(EntityNames, n),
        nf \in 0..MaxFeatures, full \in BOOLEAN}

Invocations == UNION {InvocationsOf(n) : n \in (0..MaxRows) \cup {ScenarioRows}}

\* The service's configuration, read and never written.
Endpoint == "transformation:6569"
Project == "feature_repo"

ErrConversion == "unsupported proto type"
ErrSeekPosition == "arrow/ipc: could not seek current position"
ErrInconsistentSchema == "arrow/ipc: tried to write record batch with different schema"
ErrFooter == "arrow/ipc: could not decode footer"
ErrFileBlock == "arrow/ipc: could not extract file block"
ErrBatch == "arrow/ipc: could not read message"
ErrCanceled == "rpc error: code = Canceled"
ErrDeadlineExceeded == "rpc error: code = DeadlineExceeded"
\* The error of a call whose context has ended: ctx.Err() as a status.
CtxErr(c) == IF c = "cancelled" THEN ErrCanceled ELSE ErrDeadlineExceeded
DialErrors == {"grpc: no transport security set", "grpc: failed to build resolver"}
RpcErrors == {"rpc error: code = Unavailable", "rpc error: code = Internal"}

(***************************************************************************)
(* types.ProtoValuesToArrowArray: a column of the values, or an error.     *)
(***************************************************************************)
ProtoValuesToArrowArray(values) ==
    IF values.kind = "int64"
    THEN [arr |-> Int64Column(values.Val), err |-> NoErr]
    ELSE [arr |-> Int64Column(<<>>), err |-> ErrConversion]

Field(name, column) == [Name |-> name, Type |-> column.type]

\* array.NewRecord(arrow.NewSchema(inputFields, nil), inputColumns, numRows).
\* Every column of an invocation holds numRows values (see Invocations), so
\* the record's own validation of the column lengths always passes.
NewRecord(fields, columns, numRows) ==
    [fields |-> fields, columns |-> columns, rows |-> numRows]

(***************************************************************************)
(* The arrow IPC file format, as far as the service depends on it.  The    *)
(* stream is a sequence of frames, each one "byte" of the sink: the magic, *)
(* the schema message, one message per record batch and, written by Close  *)
(* alone, the footer (schema and the batches' positions) and the magic     *)
(* again.  The reader finds everything through the footer.                 *)
(***************************************************************************)
Magic == [msg |-> "ARROW1"]
SchemaMessage(fields) == [msg |-> "schema", fields |-> fields]
BatchMessage(rec) == [msg |-> "batch", rows |-> rec.rows, columns |-> rec.columns]
FooterMessage(fields, blocks) == [msg |-> "footer", fields |-> fields, blocks |-> blocks]

NoSchema == [set |-> FALSE, fields |-> <<>>]
WithSchema(fields) == [set |-> TRUE, fields |-> fields]

\* Successive Write calls on the sink, one per chunk; a panic ends them.
RECURSIVE WriteChunks(_, _)
WriteChunks(s, chunks) ==
    IF chunks = <<>>
    THEN [w |-> s, panic |-> FALSE]
    ELSE LET r == Write(s, Head(chunks))
         IN IF r.panic THEN [w |-> r.w, panic |-> TRUE]
            ELSE WriteChunks(r.w, Tail(chunks))

\* ipc.NewFileWriter(w, opts...): notes the sink's current position.
NewFileWriter(s, schema) ==
    LET at == Seek(s, 0, SeekCurrent)
    IN [fw |-> [schema |-> schema, started |-> FALSE, blocks |-> <<>>],
        w |-> at.w,
        err |-> IF at.err = NoErr THEN NoErr ELSE ErrSeekPosition]

\* FileWriter.Write(rec).  A writer built without ipc.WithSchema has no schema
\* to compare the record's with: adoptsSchema says whether the library then
\* takes the record's schema or rejects the record.
FileWriterWrite(fw, s, rec, adoptsSchema) ==
    IF (fw.schema.set /\ fw.schema.fields # rec.fields) \/ (~fw.schema.set /\ ~adoptsSchema)
    THEN [fw |-> fw, w |-> s, err |-> ErrInconsistentSchema, panic |-> FALSE]
    ELSE LET header == IF fw.started THEN <<>>
                       ELSE << <<Magic>>, <<SchemaMessage(rec.fields)>> >>
             head == WriteChunks(s, header)
             at == Seek(head.w, 0, SeekCurrent)
             body == WriteChunks(at.w, << <<BatchMessage(rec)>> >>)
             after == Seek(body.w, 0, SeekCurrent)
         IN IF head.panic THEN [fw |-> fw, w |-> head.w, err |-> NoErr, panic |-> TRUE]
            ELSE IF at.err # NoErr
            THEN [fw |-> fw, w |-> at.w, err |-> ErrSeekPosition, panic |-> FALSE]
            ELSE IF body.panic THEN [fw |-> fw, w |-> body.w, err |-> NoErr, panic |-> TRUE]
            ELSE [fw |-> [schema |-> WithSchema(rec.fields), started |-> TRUE,
                          blocks |-> Append(fw.blocks, at.ret)],
                  w |-> after.w,
                  err |-> IF after.err = NoErr THEN NoErr ELSE ErrSeekPosition,
                  panic |-> FALSE]

\* FileWriter.Close(): the footer and the closing magic.
FileWriterClose(fw, s) ==
    WriteChunks(s, << <<FooterMessage(fw.schema.fields, fw.blocks)>>, <<Magic>> >>)

\* A complete file holding the batches, as NewFileWriter(WithSchema), Write per
\* batch and Close produce it.
RECURSIVE WriteBatches(_, _, _)
WriteBatches(fw, s, batches) ==
    IF batches = <<>>
    THEN [fw |-> fw, w |-> s]
    ELSE LET r == FileWriterWrite(fw, s, Head(batches), FALSE)
         IN WriteBatches(r.fw, r.w, Tail(batches))

EncodeFile(fields, batches) ==
    LET opened == NewFileWriter(NewByteSliceWriter, WithSchema(fields))
        written == WriteBatches(opened.fw, opened.w, batches)
    IN FileWriterClose(written.fw, written.w).w.buf

\* ipc.NewFileReader(bytes.NewReader(arrowBytes)): reads the footer at the end.
NewFileReader(arrowBytes) ==
    LET n == Len(arrowBytes)
    IN IF n < 2 \/ arrowBytes[n].msg # Magic.msg \/ arrowBytes[n - 1].msg # "footer"
       THEN [err |-> ErrFooter, fields |-> <<>>, blocks |-> <<>>]
       ELSE [err |-> NoErr, fields |-> arrowBytes[n - 1].fields,
             blocks |-> arrowBytes[n - 1].blocks]

\* FileReader.Record(i): the i-th record batch of the file, counted from 0.
\* An index beyond the number of batches panics in RecordAt or is refused with
\* an error, by library version: outOfBounds is "panic" or "error".
ReaderRecord(reader, arrowBytes, i, outOfBounds) ==
    IF (i < 0 \/ i > Len(reader.blocks)) /\ outOfBounds = "panic"
    THEN [kind |-> "panic", err |-> NoErr, rec |-> NewRecord(<<>>, <<>>, 0)]
    ELSE IF i < 0 \/ i >= Len(reader.blocks)
    THEN [kind |-> "return", err |-> ErrFileBlock, rec |-> NewRecord(<<>>, <<>>, 0)]
    ELSE LET at == reader.blocks[i + 1] + 1
         IN IF at > Len(arrowBytes) \/ arrowBytes[at].msg # "batch"
            THEN [kind |-> "return", err |-> ErrBatch, rec |-> NewRecord(<<>>, <<>>, 0)]
            ELSE [kind |-> "return", err |-> NoErr,
                  rec |-> NewRecord(reader.fields, arrowBytes[at].columns,
                                    arrowBytes[at].rows)]

(***************************************************************************)
(* ExtractTransformationResponse.                                          *)
(***************************************************************************)
PRESENT == "PRESENT"
Now == [isNil |-> FALSE, seconds |-> "now"]     \* timestamppb.Now()

\* strings.Split(field.Name, "__")[1] is out of range without a separator.
SplitPanics(name) == Len(name) < 2

\* Variant taking the first segment (the namespace) of a full feature name.
FeatureNameFirstSegment(name, fullFeatureNames) ==
    IF fullFeatureNames THEN <<name[1]>> ELSE name

FeatureName(name, fullFeatureNames) == IF fullFeatureNames THEN <<name[2]>> ELSE name

\* Variant without the else branch of line 139: dropFeature stays true when no
\* projection is declared.
DropFeatureWithoutElse(featureView, name, fullFeatureNames) ==
    ~\E i \in DOMAIN featureView.Projection.Features :
        FeatureName(name, fullFeatureNames) = featureView.Projection.Features[i].Name

DropFeature(featureView, name, fullFeatureNames) ==
    IF featureView.Projection.declared
    THEN ~\E i \in DOMAIN featureView.Projection.Features :
            FeatureName(name, fullFeatureNames) = featureView.Projection.Features[i].Name
    ELSE FALSE

\* Variant without the loop of lines 150-153: the slices stay as make left them.
FeatureVectorUnstamped(field, values, numRows) ==
    [Name |-> field.Name,
     Values |-> values,
     Statuses |-> [i \in 1..numRows |-> "INVALID"],
     Timestamps |-> [i \in 1..numRows |-> [isNil |-> TRUE, seconds |-> ""]]]

\* Variant of line 156: the vector is named by the last segment of the field name.
FeatureVectorBareName(field, values, numRows) ==
    [Name |-> <<field.Name[Len(field.Name)]>>,
     Values |-> values,
     Statuses |-> [i \in 1..numRows |-> PRESENT],
     Timestamps |-> [i \in 1..numRows |-> Now]]

FeatureVector(field, values, numRows) ==
    [Name |-> field.Name,
     Values |-> values,
     Statuses |-> [i \in 1..numRows |-> PRESENT],
     Timestamps |-> [i \in 1..numRows |-> Now]]

\* The loop over outRecord.Schema().Fields(), from field idx on.
RECURSIVE Reconcile(_, _, _, _, _, _)
Reconcile(featureView, outRecord, numRows, fullFeatureNames, idx, result) ==
    IF idx > Len(outRecord.fields)
    THEN [kind |-> "return", vectors |-> Slice(result), err |-> NoErr]
    ELSE LET field == outRecord.fields[idx]
         IN IF featureView.Projection.declared /\ fullFeatureNames /\ SplitPanics(field.Name)
            THEN [kind |-> "panic", vectors |-> NilSlice, err |-> NoErr]
            ELSE IF DropFeature(featureView, field.Name, fullFeatureNames)
            THEN Reconcile(featureView, outRecord, numRows, fullFeatureNames, idx + 1, result)
            ELSE Reconcile(featureView, outRecord, numRows, fullFeatureNames, idx + 1,
                           Append(result,
                                  FeatureVector(field, outRecord.columns[idx], numRows)))

\* Variants of "return nil, err": the error wrapped; the input vectors kept.
ErrorReturnWrapped(err) ==
    [kind |-> "return", vectors |-> NilSlice, err |-> "transformation failed"]
ErrorReturnKeepingInput(err) ==
    [kind |-> "return", vectors |-> Slice(in.features), err |-> err]

\* return nil, err
ErrorReturn(err) == [kind |-> "return", vectors |-> NilSlice, err |-> err]

ExtractTransformationResponse(featureView, arrowBytes, numRows, fullFeatureNames, outOfBounds) ==
    LET arrowReader == NewFileReader(arrowBytes)
        out == ReaderRecord(arrowReader, arrowBytes, numRows, outOfBounds)
    IN IF arrowReader.err # NoErr THEN ErrorReturn(arrowReader.err)
       ELSE IF out.kind = "panic" THEN [kind |-> "panic", vectors |-> NilSlice, err |-> NoErr]
       ELSE IF out.err # NoErr THEN ErrorReturn(out.err)
       ELSE Reconcile(featureView, out.rec, numRows, fullFeatureNames, 1, <<>>)

(***************************************************************************)
(* What the transformation endpoint may answer: the request payload as it  *)
(* came (an echoing endpoint), no bytes at all, or a complete file of one  *)
(* to MaxBatches batches of 0..MaxRows rows under one of a few schemas.    *)
(***************************************************************************)
OutSchemas ==
    {<< <<"ns", "feat1">>, <<"ns", "feat2">> >>,
     << <<"f">> >>,
     << <<"feat1">>, <<"ns", "feat1">> >>,
     << <<"ns", "feat1">>, <<"ns", "feat1">> >>}

ServedBatch(names, rows) ==
    NewRecord([k \in 1..Len(names) |-> [Name |-> names[k], Type |-> "int64"]],
              [k \in 1..Len(names) |->
                  Int64Column([i \in 1..rows |-> (i - 1) + 10 * (k - 1)])],
              rows)

ServedFiles ==
    {EncodeFile(ServedBatch(names, rows).fields,
                [b \in 1..k |-> ServedBatch(names, rows)]) :
        names \in OutSchemas, k \in 1..MaxBatches, rows \in 0..MaxRows}

Responses(payload) == {payload, <<>>} \cup ServedFiles

(***************************************************************************)
(* Spec: one invocation of GetTransformation, a step per statement.        *)
(***************************************************************************)
NoReturn == [kind |-> "none", vectors |-> NilSlice, err |-> NoErr]
Panicked == [kind |-> "panic", vectors |-> NilSlice, err |-> NoErr]

DeferRelease(d) == Append(d, "inputRecord.Release")
\* Variant of line 93 without the defer.
DeferCloseForgotten(d) == d
DeferClose(d) == Append(d, "conn.Close")

Init ==
    /\ w = NewByteSliceWriter /\ last = NoCall /\ sinkPanic = FALSE /\ appended = NoWrites
    /\ in \in Invocations
    /\ pc = "L40"
    /\ inputFields = <<>> /\ inputColumns = <<>>
    /\ reqLeft = DOMAIN in.requestData
    /\ entLeft = DOMAIN in.entityRows
    /\ inputRecord = [built |-> FALSE, rec |-> NewRecord(<<>>, <<>>, 0), released |-> 0]
    /\ arrowWriter = [schema |-> NoSchema, started |-> FALSE, blocks |-> <<>>]
    /\ req = [built |-> FALSE, OnDemandFeatureViewName |-> "", Project |-> "",
              ArrowValue |-> <<>>]
    /\ conn = [state |-> "none", target |-> "", dials |-> 0, closes |-> 0]
    /\ calls = 0
    /\ ctx = "live"
    /\ transportErr = NoErr
    /\ res = <<>>
    /\ defers = <<>>
    /\ exRes = NoReturn
    /\ ret = NoReturn
    /\ ConcIdle
    /\ CoerceIdle
    /\ EntitiesIdle

\* return v, or a panic: the deferred calls run next.
Leave(v) == ret' = v /\ pc' = "unwind"

\* lines 40-45: the columns of the input feature vectors, in input order
FeatureColumns ==
    /\ pc = "L40"
    /\ inputFields' = [k \in 1..Len(in.features) |->
                          Field(in.features[k].Name, in.features[k].Values)]
    /\ inputColumns' = [k \in 1..Len(in.features) |-> in.features[k].Values]
    /\ pc' = "L47"
    /\ UNCHANGED <<serverVars, concVars, sinkVars, in, reqLeft, entLeft, inputRecord,
                   arrowWriter, req, conn, calls, ctx, transportErr, res, defers, exRes,
                   ret>>

\* Variant of lines 49-51: a value that does not convert is skipped (continue
\* in place of return) and the build goes on with the other columns.
RequestColumnSkippingFailure(name) ==
    /\ pc = "L47"
    /\ name \in reqLeft
    /\ LET c == ProtoValuesToArrowArray(in.requestData[name])
       IN IF c.err # NoErr
          THEN UNCHANGED <<inputFields, inputColumns>>
          ELSE /\ inputFields' = Append(inputFields, Field(<<name>>, c.arr))
               /\ inputColumns' = Append(inputColumns, c.arr)
    /\ reqLeft' = reqLeft \ {name}
    /\ UNCHANGED <<serverVars, concVars, sinkVars, in, pc, entLeft, inputRecord,
                   arrowWriter, req, conn, calls, ctx, transportErr, res, defers, exRes,
                   ret>>

\* lines 47-54: one iteration of the range over requestData (any unvisited key)
RequestColumn(name) ==
    /\ pc = "L47"
    /\ name \in reqLeft
    /\ LET c == ProtoValuesToArrowArray(in.requestData[name])
       IN IF c.err # NoErr
          THEN /\ Leave(ErrorReturn(c.err))
               /\ UNCHANGED <<inputFields, inputColumns, reqLeft>>
          ELSE /\ inputFields' = Append(inputFields, Field(<<name>>, c.arr))
               /\ inputColumns' = Append(inputColumns, c.arr)
               /\ reqLeft' = reqLeft \ {name}
               /\ UNCHANGED <<pc, ret>>
    /\ UNCHANGED <<serverVars, concVars, sinkVars, in, entLeft, inputRecord, arrowWriter,
                   req, conn, calls, ctx, transportErr, res, defers, exRes>>

RequestColumnsDone ==
    /\ pc = "L47"
    /\ reqLeft = {}
    /\ pc' = "L56"
    /\ UNCHANGED <<serverVars, concVars, sinkVars, in, inputFields, inputColumns, reqLeft,
                   entLeft, inputRecord, arrowWriter, req, conn, calls, ctx, transportErr,
                   res, defers, exRes, ret>>

\* Variant of lines 61-62: the entity column is put in front of the columns
\* built so far.
EntityColumnPrepended(name) ==
    /\ pc = "L56"
    /\ name \in entLeft
    /\ LET c == ProtoValuesToArrowArray(in.entityRows[name])
       IN IF c.err # NoErr
          THEN /\ Leave(ErrorReturn(c.err))
               /\ UNCHANGED <<inputFields, inputColumns, entLeft>>
          ELSE /\ inputFields' = <<Field(<<name>>, c.arr)>> \o inputFields
               /\ inputColumns' = <<c.arr>> \o inputColumns
               /\ entLeft' = entLeft \ {name}
               /\ UNCHANGED <<pc, ret>>
    /\ UNCHANGED <<serverVars, concVars, sinkVars, in, reqLeft, inputRecord, arrowWriter,
                   req, conn, calls, ctx, transportErr, res, defers, exRes>>

\* lines 56-63: one iteration of the range over entityRows
EntityColumn(name) ==
    /\ pc = "L56"
    /\ name \in entLeft
    /\ LET c == ProtoValuesToArrowArray(in.entityRows[name])
       IN IF c.err # NoErr
          THEN /\ Leave(ErrorReturn(c.err))
               /\ UNCHANGED <<inputFields, inputColumns, entLeft>>
          ELSE /\ inputFields' = Append(inputFields, Field(<<name>>, c.arr))
               /\ inputColumns' = Append(inputColumns, c.arr)
               /\ entLeft' = entLeft \ {name}
               /\ UNCHANGED <<pc, ret>>
    /\ UNCHANGED <<serverVars, concVars, sinkVars, in, reqLeft, inputRecord, arrowWriter,
                   req, conn, calls, ctx, transportErr, res, defers, exRes>>

\* lines 65-66: the record, and its deferred Release
BuildRecord ==
    /\ pc = "L56"
    /\ entLeft = {}
    /\ inputRecord' = [built |-> TRUE,
                       rec |-> NewRecord(inputFields, inputColumns, in.numRows),
                       released |-> 0]
    /\ defers' = DeferRelease(defers)
    /\ pc' = "L68"
    /\ UNCHANGED <<serverVars, concVars, sinkVars, in, inputFields, inputColumns, reqLeft,
                   entLeft, arrowWriter, req, conn, calls, ctx, transportErr, res, exRes,
                   ret>>

\* lines 68-72: a fresh sink and the file writer over it
OpenWriter ==
    /\ pc = "L68"
    /\ LET opened == NewFileWriter(NewByteSliceWriter, NoSchema)
       IN /\ w' = opened.w
          /\ arrowWriter' = opened.fw
          /\ IF opened.err # NoErr
             THEN Leave(ErrorReturn(opened.err))
             ELSE pc' = "L73" /\ UNCHANGED ret
    /\ UNCHANGED <<serverVars, concVars, last, sinkPanic, appended, in, inputFields,
                   inputColumns, reqLeft, entLeft, inputRecord, req, conn, calls, ctx,
                   transportErr, res, defers, exRes>>

\* lines 73-76: arrowWriter.Write(inputRecord)
WriteRecord(adoptsSchema) ==
    /\ pc = "L73"
    /\ LET r == FileWriterWrite(arrowWriter, w, inputRecord.rec, adoptsSchema)
       IN /\ w' = r.w
          /\ arrowWriter' = r.fw
          /\ IF r.panic THEN Leave(Panicked)
             ELSE IF r.err # NoErr THEN Leave(ErrorReturn(r.err))
             ELSE pc' = "L77" /\ UNCHANGED ret
    /\ UNCHANGED <<serverVars, concVars, last, sinkPanic, appended, in, inputFields,
                   inputColumns, reqLeft, entLeft, inputRecord, req, conn, calls, ctx,
                   transportErr, res, defers, exRes>>

\* lines 77-84: the request, its payload the sink's buffer as it is now
BuildRequest ==
    /\ pc = "L77"
    /\ req' = [built |-> TRUE,
               OnDemandFeatureViewName |-> in.featureView.Name,
               Project |-> Project,
               ArrowValue |-> w.buf]
    /\ pc' = "L89"
    /\ UNCHANGED <<serverVars, concVars, sinkVars, in, inputFields, inputColumns, reqLeft,
                   entLeft, inputRecord, arrowWriter, conn, calls, ctx, transportErr, res,
                   defers, exRes, ret>>

\* Variant of lines 89-92 without the check of the error of grpc.Dial: the
\* invocation goes on to the call.
DialFailsUnchecked(e) ==
    /\ pc = "L89"
    /\ conn' = [conn EXCEPT !.dials = @ + 1]
    /\ transportErr' = e
    /\ pc' = "L96"
    /\ UNCHANGED <<serverVars, concVars, sinkVars, in, inputFields, inputColumns, reqLeft,
                   entLeft, inputRecord, arrowWriter, req, calls, ctx, res, defers, exRes,
                   ret>>

\* lines 89-92: grpc.Dial fails
DialFails(e) ==
    /\ pc = "L89"
    /\ conn' = [conn EXCEPT !.dials = @ + 1]
    /\ transportErr' = e
    /\ Leave(ErrorReturn(e))
    /\ UNCHANGED <<serverVars, concVars, sinkVars, in, inputFields, inputColumns, reqLeft,
                   entLeft, inputRecord, arrowWriter, req, calls, ctx, res, defers, exRes>>

\* lines 89-94: grpc.Dial succeeds; conn.Close is deferred
DialSucceeds ==
    /\ pc = "L89"
    /\ conn' = [conn EXCEPT !.dials = @ + 1, !.state = "open", !.target = Endpoint]
    /\ defers' = DeferClose(defers)
    /\ pc' = "L96"
    /\ UNCHANGED <<serverVars, concVars, sinkVars, in, inputFields, inputColumns, reqLeft,
                   entLeft, inputRecord, arrowWriter, req, calls, ctx, transportErr, res,
                   exRes, ret>>

\* line 96: client.TransformFeatures(ctx, &req) is issued and blocks
IssueCall ==
    /\ pc = "L96"
    /\ calls' = calls + 1
    /\ pc' = "inCall"
    /\ UNCHANGED <<serverVars, concVars, sinkVars, in, inputFields, inputColumns, reqLeft,
                   entLeft, inputRecord, arrowWriter, req, conn, ctx, transportErr, res,
                   defers, exRes, ret>>

\* The caller cancels ctx; nothing reads ctx before the call.
CtxCancel ==
    /\ pc \in {"L96", "inCall"}
    /\ ctx = "live"
    /\ ctx' = "cancelled"
    /\ UNCHANGED <<serverVars, concVars, sinkVars, in, pc, inputFields, inputColumns,
                   reqLeft, entLeft, inputRecord, arrowWriter, req, conn, calls,
                   transportErr, res, defers, exRes, ret>>

\* The deadline of ctx expires.
CtxDeadline ==
    /\ pc \in {"L96", "inCall"}
    /\ ctx = "live"
    /\ ctx' = "expired"
    /\ UNCHANGED <<serverVars, concVars, sinkVars, in, pc, inputFields, inputColumns,
                   reqLeft, entLeft, inputRecord, arrowWriter, req, conn, calls,
                   transportErr, res, defers, exRes, ret>>

\* lines 96-99: the call fails in the transport.  The call ends with the first
\* thing that happens to it: once ctx has ended, that is the end of ctx.
CallFails(e) ==
    /\ pc = "inCall"
    /\ ctx = "live"
    /\ transportErr' = e
    /\ Leave(ErrorReturn(e))
    /\ UNCHANGED <<serverVars, concVars, sinkVars, in, inputFields, inputColumns, reqLeft,
                   entLeft, inputRecord, arrowWriter, req, conn, calls, ctx, res, defers,
                   exRes>>

\* Variant of line 96: the call is issued with a context of its own
\* (context.Background()), so that the end of ctx never reaches it.
CallIgnoringCtx ==
    /\ pc = "inCall"
    /\ ctx = "background"
    /\ UNCHANGED vars

\* lines 96-99: the call ends because ctx is cancelled or past its deadline
CallCancelled ==
    /\ pc = "inCall"
    /\ ctx # "live"
    /\ transportErr' = CtxErr(ctx)
    /\ Leave(ErrorReturn(CtxErr(ctx)))
    /\ UNCHANGED <<serverVars, concVars, sinkVars, in, inputFields, inputColumns, reqLeft,
                   entLeft, inputRecord, arrowWriter, req, conn, calls, ctx, res, defers,
                   exRes>>

\* lines 96-101: the endpoint answers
CallReturns(arrowBytes) ==
    /\ pc = "inCall"
    /\ ctx = "live"
    /\ res' = arrowBytes
    /\ pc' = "L102"
    /\ UNCHANGED <<serverVars, concVars, sinkVars, in, inputFields, inputColumns, reqLeft,
                   entLeft, inputRecord, arrowWriter, req, conn, calls, ctx, transportErr,
                   defers, exRes, ret>>

\* line 102: return ExtractTransformationResponse(...)
Extract(outOfBounds) ==
    /\ pc = "L102"
    /\ LET r == ExtractTransformationResponse(in.featureView, res, in.numRows,
                                              in.fullFeatureNames, outOfBounds)
       IN exRes' = r /\ Leave(r)
    /\ UNCHANGED <<serverVars, concVars, sinkVars, in, inputFields, inputColumns, reqLeft,
                   entLeft, inputRecord, arrowWriter, req, conn, calls, ctx, transportErr,
                   res, defers>>

\* One deferred call, last in first out.
RunDeferred ==
    /\ pc = "unwind"
    /\ defers # <<>>
    /\ LET call == defers[Len(defers)]
       IN /\ defers' = SubSeq(defers, 1, Len(defers) - 1)
          /\ IF call = "conn.Close"
             THEN /\ conn' = [conn EXCEPT !.state = "closed", !.closes = @ + 1]
                  /\ UNCHANGED inputRecord
             ELSE /\ inputRecord' = [inputRecord EXCEPT !.released = @ + 1]
                  /\ UNCHANGED conn
    /\ UNCHANGED <<serverVars, concVars, sinkVars, in, pc, inputFields, inputColumns,
                   reqLeft, entLeft, arrowWriter, req, calls, ctx, transportErr, res,
                   exRes, ret>>

\* The invocation is over: it has returned ret, or the panic goes on to the caller.
Finish ==
    /\ pc = "unwind"
    /\ defers = <<>>
    /\ pc' = "done"
    /\ UNCHANGED <<serverVars, concVars, sinkVars, in, inputFields, inputColumns, reqLeft,
                   entLeft, inputRecord, arrowWriter, req, conn, calls, ctx, transportErr,
                   res, defers, exRes, ret>>

Next ==
    \/ FeatureColumns
    \/ \E name \in RequestNames : RequestColumn(name)
    \/ RequestColumnsDone
    \/ \E name \in EntityNames : EntityColumn(name)
    \/ BuildRecord
    \/ OpenWriter
    \/ \E adoptsSchema \in BOOLEAN : WriteRecord(adoptsSchema)
    \/ BuildRequest
    \/ \E e \in DialErrors : DialFails(e)
    \/ DialSucceeds
    \/ IssueCall
    \/ CtxCancel
    \/ CtxDeadline
    \/ \E e \in RpcErrors : CallFails(e)
    \/ CallCancelled
    \/ \E arrowBytes \in Responses(req.ArrowValue) : CallReturns(arrowBytes)
    \/ \E outOfBounds \in {"panic", "error"} : Extract(outOfBounds)
    \/ RunDeferred
    \/ Finish

Spec == Init /\ [][Next]_vars

\* The same invocation with the scheduling the liveness of the call rests on:
\* the transport watches ctx.Done() for as long as the call is pending, and the
\* goroutine of the invocation keeps running, deferred calls included.
SpecLive ==
    /\ Spec
    /\ WF_vars(CallCancelled)
    /\ WF_vars(RunDeferred)
    /\ WF_vars(Finish)

(***************************************************************************)
(* Claims about GetTransformation, checked under Spec.                     *)
(***************************************************************************)
\* The end-to-end scenario: no projection, 10 rows, the one feature column "f"
\* holding 0..9, no request or entity values.
Scenario ==
    /\ ~in.featureView.Projection.declared
    /\ in.numRows = ScenarioRows
    /\ in.features = <<InputVector(1, ScenarioRows)>>
    /\ DOMAIN in.requestData = {}
    /\ DOMAIN in.entityRows = {}

\* The endpoint answered with the payload it was sent.
Echoed == exRes.kind # "none" /\ res = req.ArrowValue

ScenarioVector ==
    [Name |-> <<"f">>,
     Values |-> Int64Column(Iota(ScenarioRows)),
     Statuses |-> [i \in 1..ScenarioRows |-> PRESENT],
     Timestamps |-> [i \in 1..ScenarioRows |-> Now]]

\* C1: in the scenario, an invocation whose endpoint echoes the payload returns
\* without error exactly one FeatureVector named "f" with values 0..9, 10
\* PRESENT statuses and 10 timestamps.
C1_EchoScenario ==
    (pc = "done" /\ Scenario /\ Echoed)
    => (/\ ret.kind = "return"
        /\ ret.err = NoErr
        /\ ret.vectors = Slice(<<ScenarioVector>>))

\* C2: the payload taken from the ByteSliceWriter decodes, with the reader of
\* ExtractTransformationResponse, to the record that was built: same fields in
\* the same order, same row count, same columns.
C2_PayloadRoundTrip ==
    req.built
    => LET reader == NewFileReader(req.ArrowValue)
           out == ReaderRecord(reader, req.ArrowValue, 0, "error")
       IN /\ reader.err = NoErr
          /\ out.err = NoErr
          /\ out.rec = inputRecord.rec

\* C8: once the dial has succeeded, the connection has been closed exactly once
\* when the invocation ends, whatever the exit path; it is never closed twice.
C8_ConnectionReleased ==
    /\ conn.closes <= 1
    /\ (pc = "done" /\ conn.state # "none")
       => (conn.state = "closed" /\ conn.closes = 1)

C8_Witness ==
    /\ pc = "done"
    /\ ret.err = ErrCanceled
    /\ conn.dials = 1
    /\ conn.state = "closed"
    /\ conn.closes = 1

\* C9: an invocation dials at most once and calls at most once, and when the
\* dial or the call failed it returns the transport's error unchanged.
C9_NoRetryVerbatimError ==
    /\ conn.dials <= 1
    /\ calls <= 1
    /\ (pc = "done" /\ transportErr # NoErr)
       => (ret.kind = "return" /\ ret.err = transportErr)

C9_Witness ==
    /\ pc = "done"
    /\ transportErr \in RpcErrors
    /\ ret.err = transportErr
    /\ conn.dials = 1
    /\ calls = 1

\* C10: whenever GetTransformation or ExtractTransformationResponse returns an
\* error, the vector list it returns with it is nil.
C10_NoPartialOutput ==
    /\ (ret.kind = "return" /\ ret.err # NoErr) => ret.vectors = NilSlice
    /\ (exRes.kind = "return" /\ exRes.err # NoErr) => exRes.vectors = NilSlice

C10_Witness ==
    /\ pc = "done"
    /\ Len(in.features) > 0
    /\ exRes.kind = "return"
    /\ exRes.err = ErrFileBlock
    /\ ret = exRes
    /\ ret.vectors = NilSlice
(***************************************************************************)
(* Claims about ExtractTransformationResponse, checked under Spec on the   *)
(* answers of the endpoint.                                                *)
(***************************************************************************)
\* The record ExtractTransformationResponse decodes from the answer, when it
\* decodes one.
Decoded == ReaderRecord(NewFileReader(res), res, in.numRows, "error")
DecodeOk == exRes.kind # "none" /\ NewFileReader(res).err = NoErr /\ Decoded.err = NoErr

VectorNames(result) == [k \in 1..Len(result.vectors.elems) |-> result.vectors.elems[k].Name]
FieldNames(fields) == [k \in 1..Len(fields) |-> fields[k].Name]

\* C11: with a projection and fullFeatureNames, a response column whose name
\* holds no "__" makes ExtractTransformationResponse return an error; it does
\* not panic.
C11_MissingSeparatorIsHandled ==
    (/\ DecodeOk
     /\ in.featureView.Projection.declared
     /\ in.fullFeatureNames
     /\ \E k \in DOMAIN Decoded.rec.fields : Len(Decoded.rec.fields[k].Name) < 2)
    => (exRes.kind = "return" /\ exRes.err # NoErr)

\* A projection feature matches a field by the field's bare name: its second
\* "__"-separated segment under fullFeatureNames, the whole name otherwise.
BareNameMatches(name, fullFeatureNames, feature) ==
    IF fullFeatureNames
    THEN Len(name) >= 2 /\ feature.Name = <<name[2]>>
    ELSE feature.Name = name

InProjection(field) ==
    \E i \in DOMAIN in.featureView.Projection.Features :
        BareNameMatches(field.Name, in.fullFeatureNames, in.featureView.Projection.Features[i])

\* C12: with a projection declared, the vectors returned are exactly the
\* columns whose bare name is the name of a projection feature.
C12_ProjectionFiltering ==
    (exRes.kind = "return" /\ exRes.err = NoErr /\ in.featureView.Projection.declared)
    => VectorNames(exRes) = FieldNames(SelectSeq(Decoded.rec.fields, InProjection))

\* projection {feat1}, fields {ns__feat1, ns__feat2}, fullFeatureNames: one vector, ns__feat1
C12_Witness ==
    /\ exRes.kind = "return" /\ exRes.err = NoErr
    /\ in.featureView.Projection.declared
    /\ in.fullFeatureNames
    /\ FieldNames(Decoded.rec.fields) = << <<"ns", "feat1">>, <<"ns", "feat2">> >>
    /\ VectorNames(exRes) = << <<"ns", "feat1">> >>

\* C13: without a projection every column of the decoded record yields a
\* vector, whatever fullFeatureNames and the names are, and name resolution
\* raises nothing.
C13_NoProjectionKeepsAll ==
    (DecodeOk /\ ~in.featureView.Projection.declared)
    => (/\ exRes.kind = "return"
        /\ exRes.err = NoErr
        /\ Len(exRes.vectors.elems) = Len(Decoded.rec.fields)
        /\ VectorNames(exRes) = FieldNames(Decoded.rec.fields))

C13_Witness ==
    /\ DecodeOk
    /\ ~in.featureView.Projection.declared
    /\ in.fullFeatureNames
    /\ FieldNames(Decoded.rec.fields) = << <<"feat1">>, <<"ns", "feat1">> >>
    /\ Len(exRes.vectors.elems) = 2

\* C14: every vector returned has numRows statuses, all PRESENT, and numRows
\* timestamps, none nil.
C14_StatusTimestampStamping ==
    (exRes.kind = "return" /\ exRes.err = NoErr)
    => \A k \in DOMAIN exRes.vectors.elems :
          LET v == exRes.vectors.elems[k]
          IN /\ Len(v.Statuses) = in.numRows
             /\ Len(v.Timestamps) = in.numRows
             /\ \A i \in DOMAIN v.Statuses : v.Statuses[i] = PRESENT
             /\ \A i \in DOMAIN v.Timestamps : ~v.Timestamps[i].isNil

C14_Witness ==
    /\ exRes.kind = "return" /\ exRes.err = NoErr
    /\ in.numRows = 1
    /\ Len(exRes.vectors.elems) = 2
    /\ exRes.vectors.elems[2].Statuses = <<PRESENT>>
    /\ exRes.vectors.elems[2].Timestamps = <<Now>>

\* C15: every vector returned has len(values) = len(statuses) =
\* len(timestamps) = numRows.
C15_LengthInvariant ==
    (exRes.kind = "return" /\ exRes.err = NoErr)
    => \A k \in DOMAIN exRes.vectors.elems :
          LET v == exRes.vectors.elems[k]
          IN /\ Len(v.Values.vals) = in.numRows
             /\ Len(v.Statuses) = in.numRows
             /\ Len(v.Timestamps) = in.numRows

\* The answer is a complete file of exactly one batch, of numRows rows.
OneBatchOfNumRows ==
    /\ exRes.kind # "none"
    /\ \E names \in OutSchemas :
          res = EncodeFile(ServedBatch(names, in.numRows).fields,
                           <<ServedBatch(names, in.numRows)>>)

\* The answer is no complete file, or the batch read from it does not have
\* numRows rows.
Undecodable ==
    /\ exRes.kind # "none"
    /\ \/ NewFileReader(res).err # NoErr
       \/ Decoded.err # NoErr
       \/ Decoded.rec.rows # in.numRows

\* C16: a well-formed payload of one record batch of numRows rows is decoded
\* (no error, no panic), and a payload that is no valid file or whose row count
\* disagrees with numRows gives a decode error.
C16_DecodeStep ==
    /\ OneBatchOfNumRows => (exRes.kind = "return" /\ exRes.err = NoErr)
    /\ Undecodable => (exRes.kind = "return" /\ exRes.err # NoErr)

\* The columns the record must hold after the feature columns.
ColumnOf(values) == ProtoValuesToArrowArray(values).arr
NumFeatures == Len(in.features)
NumRequest == Cardinality(DOMAIN in.requestData)
NumEntity == Cardinality(DOMAIN in.entityRows)

\* C17: the record GetTransformation builds holds len(features) +
\* len(requestData) + len(entityRows) columns: first the columns of the input
\* feature vectors in input order, then one column per requestData entry, then
\* one column per entityRows entry, each under its entry's name.
C17_ColumnOrder ==
    inputRecord.built =>
        LET fields == inputRecord.rec.fields
            columns == inputRecord.rec.columns
            requestBlock == (NumFeatures + 1)..(NumFeatures + NumRequest)
            entityBlock == (NumFeatures + NumRequest + 1)..(NumFeatures + NumRequest + NumEntity)
        IN /\ Len(fields) = NumFeatures + NumRequest + NumEntity
           /\ Len(columns) = Len(fields)
           /\ \A k \in 1..NumFeatures :
                 /\ fields[k].Name = in.features[k].Name
                 /\ columns[k] = in.features[k].Values
           /\ {fields[k].Name : k \in requestBlock} = {<<n>> : n \in DOMAIN in.requestData}
           /\ \A k \in requestBlock :
                 columns[k] = ColumnOf(in.requestData[fields[k].Name[1]])
           /\ {fields[k].Name : k \in entityBlock} = {<<n>> : n \in DOMAIN in.entityRows}
           /\ \A k \in entityBlock :
                 columns[k] = ColumnOf(in.entityRows[fields[k].Name[1]])

\* A record of two feature columns, two request columns and one entity column.
C17_Witness ==
    /\ inputRecord.built
    /\ in.numRows = 1
    /\ NumFeatures = 2 /\ NumRequest = 2 /\ NumEntity = 1
    /\ FieldNames(SubSeq(inputRecord.rec.fields, 1, 2)) = << <<"f">>, <<"g">> >>
    /\ inputRecord.rec.fields[5].Name = <<"e1">>

\* Some requestData or entityRows value has no arrow type.
ConversionFails ==
    \/ \E n \in DOMAIN in.requestData : ProtoValuesToArrowArray(in.requestData[n]).err # NoErr
    \/ \E n \in DOMAIN in.entityRows : ProtoValuesToArrowArray(in.entityRows[n]).err # NoErr

\* C18: when the conversion of some requestData or entityRows value fails,
\* no record is ever built, nothing is written to a sink, no request is built,
\* no connection is dialled and no call is issued, and the invocation ends
\* returning nil and the conversion error.
C18_ConversionFailureAborts ==
    ConversionFails =>
        /\ ~inputRecord.built
        /\ w = NewByteSliceWriter
        /\ ~arrowWriter.started
        /\ ~req.built
        /\ conn.dials = 0
        /\ calls = 0
        /\ pc = "done" => ret = ErrorReturn(ErrConversion)

\* The second request value failed after the first one had become a column.
C18_Witness ==
    /\ pc = "done"
    /\ ConversionFails
    /\ Len(inputFields) > NumFeatures
    /\ ret = ErrorReturn(ErrConversion)
    /\ ~inputRecord.built

\* ctx ended while the invocation was blocked in client.TransformFeatures.
CancelledInCall == pc = "inCall" /\ ctx # "live"

\* The invocation has returned the error of ctx, its connection closed.
ReturnedCancellation ==
    /\ pc = "done"
    /\ ret = ErrorReturn(CtxErr(ctx))
    /\ conn.state = "closed"
    /\ conn.closes = 1

\* C19: an invocation whose context is cancelled, or past its deadline, while
\* it is blocked in the RPC call eventually returns nil and the cancellation
\* error, and its connection is closed by the time it returns.
C19_CancellationDoesNotHang == CancelledInCall ~> ReturnedCancellation

\* A call issued, ended by the deadline, and the connection closed on return.
C19_Witness ==
    /\ ReturnedCancellation
    /\ ctx = "expired"
    /\ transportErr = ErrDeadlineExceeded
    /\ req.built
    /\ calls = 1
    /\ res = <<>>

(***************************************************************************)
(* SpecConc: NumProcs invocations of GetTransformation interleave on one   *)
(* grpcTransformationService.  Each invocation has its local variables in  *)
(* procs[i]; the objects it allocates live in sinks and conns, under the   *)
(* address the allocation returned; service and registry are what the      *)
(* invocations share.  A step is one statement that touches an object, or  *)
(* a run of statements that touch locals only.                             *)
(***************************************************************************)
NumProcs == 2
Procs == 1..NumProcs

\* The feature views of the registry; an invocation holds a pointer to one.
RegisteredViews ==
    ("odfv" :> [Name |-> "odfv", Projection |-> NoProjection]) @@
    ("odfv_projected" :> [Name |-> "odfv_projected",
                          Projection |-> Projection(<<[Name |-> <<"feat1">>]>>)])

\* One row, the feature column "f", at most one request value, full names.
ConcInvocations ==
    {[featureView |-> v, requestData |-> rd, entityRows |-> <<>>,
      features |-> <<InputVector(1, 1)>>, numRows |-> 1, fullFeatureNames |-> TRUE] :
        v \in DOMAIN RegisteredViews, rd \in ValueMaps({"r1"}, 1)}

\* What the endpoint does with a call: it echoes the payload, serves a complete
\* file of two batches with the columns ns__feat1 and ns__feat2, or fails.
ConcServedFile ==
    EncodeFile(ServedBatch(<< <<"ns", "feat1">>, <<"ns", "feat2">> >>, 1).fields,
               [b \in 1..2 |-> ServedBatch(<< <<"ns", "feat1">>, <<"ns", "feat2">> >>, 1)])
ConcDialErrors == {"grpc: no transport security set"}
ConcRpcErrors == {"rpc error: code = Unavailable"}
CallOutcomes == {"echo", "served"} \cup ConcRpcErrors
ResponseOf(outcome, payload) == IF outcome = "echo" THEN payload ELSE ConcServedFile

ErrConnClosing == "grpc: the client connection is closing"

\* What the environment did to an invocation, noted as it happens.
NoEnv == [adoptsSchema |-> TRUE, dial |-> NoErr, call |-> "none"]

NoRequest == [built |-> FALSE, OnDemandFeatureViewName |-> "", Project |-> "", ArrowValue |-> <<>>]

\* The keys of a map in the order the range statement visits them.
RECURSIVE RangeOver(_)
RangeOver(m) ==
    IF DOMAIN m = {} THEN <<>>
    ELSE LET n == CHOOSE n \in DOMAIN m : TRUE
         IN <<n>> \o RangeOver([k \in DOMAIN m \ {n} |-> m[k]])

\* lines 47-63: the columns of a map's values, up to the first that fails
RECURSIVE ConvertAll(_, _)
ConvertAll(m, names) ==
    IF names = <<>> THEN [fields |-> <<>>, columns |-> <<>>, err |-> NoErr]
    ELSE LET c == ProtoValuesToArrowArray(m[Head(names)])
             rest == ConvertAll(m, Tail(names))
         IN IF c.err # NoErr THEN [fields |-> <<>>, columns |-> <<>>, err |-> c.err]
            ELSE [fields |-> <<Field(<<Head(names)>>, c.arr)>> \o rest.fields,
                  columns |-> <<c.arr>> \o rest.columns,
                  err |-> rest.err]

\* lines 40-65: the record of an invocation's arguments, or the conversion error
InputRecordOf(a) ==
    LET request == ConvertAll(a.requestData, RangeOver(a.requestData))
        entity == ConvertAll(a.entityRows, RangeOver(a.entityRows))
        fields == [k \in 1..Len(a.features) |-> Field(a.features[k].Name, a.features[k].Values)]
        columns == [k \in 1..Len(a.features) |-> a.features[k].Values]
    IN IF request.err # NoErr THEN [err |-> request.err, rec |-> NewRecord(<<>>, <<>>, 0)]
       ELSE IF entity.err # NoErr THEN [err |-> entity.err, rec |-> NewRecord(<<>>, <<>>, 0)]
       ELSE [err |-> NoErr,
             rec |-> NewRecord(fields \o request.fields \o entity.fields,
                               columns \o request.columns \o entity.columns,
                               a.numRows)]

\* Variant of line 68: every invocation is handed one sink, kept by the service.
SinkShared(i) == 1
\* line 68: new(ByteSliceWriter) is a new object, at an address of its own.
SinkOf(i) == i
\* line 89: grpc.Dial returns a new connection.
ConnOf(i) == i

NewInvocation(a) ==
    [in |-> a, env |-> NoEnv, pc |-> "L40",
     inputRecord |-> [built |-> FALSE, rec |-> NewRecord(<<>>, <<>>, 0), released |-> 0],
     recordValueWriter |-> 0,
     arrowWriter |-> [schema |-> NoSchema, started |-> FALSE, blocks |-> <<>>],
     req |-> NoRequest, conn |-> 0, res |-> <<>>, defers |-> <<>>, ret |-> NoReturn]

ConcInit ==
    /\ w = NewByteSliceWriter /\ last = NoCall /\ sinkPanic = FALSE /\ appended = NoWrites
    /\ GtIdle
    /\ CoerceIdle
    /\ EntitiesIdle
    /\ service = [endpoint |-> Endpoint, project |-> Project]
    /\ registry = RegisteredViews
    /\ procs \in [Procs -> {NewInvocation(a) : a \in ConcInvocations}]
    /\ sinks = <<>>
    /\ conns = <<>>

\* return v, or a panic, in invocation l
Leaves(l, v) == [l EXCEPT !.ret = v, !.pc = "unwind"]

\* lines 40-66: columns, record and its deferred Release
ConcBuildRecord(i) ==
    LET l == procs[i]
        b == InputRecordOf(l.in)
    IN /\ l.pc = "L40"
       /\ procs' = [procs EXCEPT ![i] =
             IF b.err # NoErr THEN Leaves(l, ErrorReturn(b.err))
             ELSE [l EXCEPT !.inputRecord = [built |-> TRUE, rec |-> b.rec, released |-> 0],
                            !.defers = DeferRelease(@),
                            !.pc = "L68"]]
       /\ UNCHANGED <<sinkVars, gtVars, serverVars, service, registry, sinks, conns>>

\* lines 68-72: a new sink and the file writer over it
ConcOpenWriter(i) ==
    LET l == procs[i]
        opened == NewFileWriter(NewByteSliceWriter, NoSchema)
    IN /\ l.pc = "L68"
       /\ sinks' = (SinkOf(i) :> opened.w) @@ sinks
       /\ procs' = [procs EXCEPT ![i] =
             LET m == [l EXCEPT !.recordValueWriter = SinkOf(i), !.arrowWriter = opened.fw]
             IN IF opened.err # NoErr THEN Leaves(m, ErrorReturn(opened.err))
                ELSE [m EXCEPT !.pc = "L73"]]
       /\ UNCHANGED <<sinkVars, gtVars, serverVars, service, registry, conns>>

\* lines 73-76: arrowWriter.Write(inputRecord), into the invocation's sink
ConcWriteRecord(i, adoptsSchema) ==
    LET l == procs[i]
        r == FileWriterWrite(l.arrowWriter, sinks[l.recordValueWriter], l.inputRecord.rec,
                             adoptsSchema)
    IN /\ l.pc = "L73"
       /\ sinks' = [sinks EXCEPT ![l.recordValueWriter] = r.w]
       /\ procs' = [procs EXCEPT ![i] =
             LET m == [l EXCEPT !.arrowWriter = r.fw, !.env.adoptsSchema = adoptsSchema]
             IN IF r.panic THEN Leaves(m, Panicked)
                ELSE IF r.err # NoErr THEN Leaves(m, ErrorReturn(r.err))
                ELSE [m EXCEPT !.pc = "L77"]]
       /\ UNCHANGED <<sinkVars, gtVars, serverVars, service, registry, conns>>

\* lines 77-84: the request: the sink's buffer, the view's name, s.project
ConcBuildRequest(i) ==
    LET l == procs[i]
    IN /\ l.pc = "L77"
       /\ procs' = [procs EXCEPT ![i] =
             [l EXCEPT !.req = [built |-> TRUE,
                                OnDemandFeatureViewName |-> registry[l.in.featureView].Name,
                                Project |-> service.project,
                                ArrowValue |-> sinks[l.recordValueWriter].buf],
                       !.pc = "L89"]]
       /\ UNCHANGED <<sinkVars, gtVars, serverVars, service, registry, sinks, conns>>

\* lines 89-92: grpc.Dial(s.endpoint) fails
ConcDialFails(i, e) ==
    LET l == procs[i]
    IN /\ l.pc = "L89"
       /\ procs' = [procs EXCEPT ![i] = Leaves([l EXCEPT !.env.dial = e], ErrorReturn(e))]
       /\ UNCHANGED <<sinkVars, gtVars, serverVars, service, registry, sinks, conns>>

\* lines 89-94: grpc.Dial(s.endpoint) succeeds; conn.Close is deferred
ConcDialSucceeds(i) ==
    LET l == procs[i]
    IN /\ l.pc = "L89"
       /\ conns' = (ConnOf(i) :> [state |-> "open", target |-> service.endpoint]) @@ conns
       /\ procs' = [procs EXCEPT ![i] =
             [l EXCEPT !.conn = ConnOf(i), !.defers = DeferClose(@), !.pc = "L96"]]
       /\ UNCHANGED <<sinkVars, gtVars, serverVars, service, registry, sinks>>

\* lines 96-101: client.TransformFeatures(ctx, &req) on the invocation's connection
ConcCall(i, outcome) ==
    LET l == procs[i]
        m == [l EXCEPT !.env.call = outcome]
    IN /\ l.pc = "L96"
       /\ procs' = [procs EXCEPT ![i] =
             IF conns[l.conn].state # "open" THEN Leaves(m, ErrorReturn(ErrConnClosing))
             ELSE IF outcome \in ConcRpcErrors THEN Leaves(m, ErrorReturn(outcome))
             ELSE [m EXCEPT !.res = ResponseOf(outcome, l.req.ArrowValue), !.pc = "L102"]]
       /\ UNCHANGED <<sinkVars, gtVars, serverVars, service, registry, sinks, conns>>

\* line 102: return ExtractTransformationResponse(featureView, ...)
ConcExtract(i, outOfBounds) ==
    LET l == procs[i]
        r == ExtractTransformationResponse(registry[l.in.featureView], l.res, l.in.numRows,
                                           l.in.fullFeatureNames, outOfBounds)
    IN /\ l.pc = "L102"
       /\ procs' = [procs EXCEPT ![i] = Leaves(l, r)]
       /\ UNCHANGED <<sinkVars, gtVars, serverVars, service, registry, sinks, conns>>

\* One deferred call of invocation i, last in first out.
ConcRunDeferred(i) ==
    LET l == procs[i]
        call == l.defers[Len(l.defers)]
        m == [l EXCEPT !.defers = SubSeq(@, 1, Len(@) - 1)]
    IN /\ l.pc = "unwind"
       /\ l.defers # <<>>
       /\ IF call = "conn.Close"
          THEN /\ conns' = [conns EXCEPT ![l.conn].state = "closed"]
               /\ procs' = [procs EXCEPT ![i] = m]
          ELSE /\ procs' = [procs EXCEPT ![i] = [m EXCEPT !.inputRecord.released = @ + 1]]
               /\ UNCHANGED conns
       /\ UNCHANGED <<sinkVars, gtVars, serverVars, service, registry, sinks>>

\* Invocation i is over.
ConcFinish(i) ==
    LET l == procs[i]
    IN /\ l.pc = "unwind"
       /\ l.defers = <<>>
       /\ procs' = [procs EXCEPT ![i] = [l EXCEPT !.pc = "done"]]
       /\ UNCHANGED <<sinkVars, gtVars, serverVars, service, registry, sinks, conns>>

ConcNext ==
    \E i \in Procs :
        \/ ConcBuildRecord(i)
        \/ ConcOpenWriter(i)
        \/ \E adoptsSchema \in BOOLEAN : ConcWriteRecord(i, adoptsSchema)
        \/ ConcBuildRequest(i)
        \/ \E e \in ConcDialErrors : ConcDialFails(i, e)
        \/ ConcDialSucceeds(i)
        \/ \E outcome \in CallOutcomes : ConcCall(i, outcome)
        \/ \E outOfBounds \in {"panic", "error"} : ConcExtract(i, outOfBounds)
        \/ ConcRunDeferred(i)
        \/ ConcFinish(i)

SpecConc == ConcInit /\ [][ConcNext]_vars

(***************************************************************************)
(* Claims about concurrent invocations, checked under SpecConc.            *)
(***************************************************************************)
\* lines 28-103 run from start to end with nothing else running: the request
\* of an invocation with arguments a to which the environment does e, and the
\* outcomes it can leave with (one for each way a read past the last batch
\* can end).
GetTransformationAlone(a, e) ==
    LET b == InputRecordOf(a)
        opened == NewFileWriter(NewByteSliceWriter, NoSchema)
        written == FileWriterWrite(opened.fw, opened.w, b.rec, e.adoptsSchema)
        request == [built |-> TRUE,
                    OnDemandFeatureViewName |-> RegisteredViews[a.featureView].Name,
                    Project |-> Project,
                    ArrowValue |-> written.w.buf]
    IN IF b.err # NoErr THEN [req |-> NoRequest, rets |-> {ErrorReturn(b.err)}]
       ELSE IF opened.err # NoErr THEN [req |-> NoRequest, rets |-> {ErrorReturn(opened.err)}]
       ELSE IF written.panic THEN [req |-> NoRequest, rets |-> {Panicked}]
       ELSE IF written.err # NoErr THEN [req |-> NoRequest, rets |-> {ErrorReturn(written.err)}]
       ELSE IF e.dial # NoErr THEN [req |-> request, rets |-> {ErrorReturn(e.dial)}]
       ELSE IF e.call \in ConcRpcErrors THEN [req |-> request, rets |-> {ErrorReturn(e.call)}]
       ELSE [req |-> request,
             rets |-> {ExtractTransformationResponse(
                           RegisteredViews[a.featureView],
                           ResponseOf(e.call, request.ArrowValue),
                           a.numRows, a.fullFeatureNames, outOfBounds) :
                       outOfBounds \in {"panic", "error"}}]

\* The endpoint, the project and the feature views are as they were at the start.
SharedStateUnwritten ==
    /\ service = [endpoint |-> Endpoint, project |-> Project]
    /\ registry = RegisteredViews

\* No two invocations hold the same sink or the same connection, and an
\* invocation's connection is open until its own deferred Close.
OwnObjects ==
    /\ \A i, j \in Procs :
          i # j =>
             /\ procs[i].recordValueWriter # 0 =>
                   procs[i].recordValueWriter # procs[j].recordValueWriter
             /\ procs[i].conn # 0 => procs[i].conn # procs[j].conn
    /\ \A i \in Procs :
          procs[i].conn # 0 =>
             conns[procs[i].conn].state =
                IF "conn.Close" \in {procs[i].defers[k] : k \in DOMAIN procs[i].defers}
                THEN "open" ELSE "closed"

\* The request an invocation built and the outcome it left with are those of
\* the same invocation run alone in the same environment.
OutcomeAsAlone ==
    \A i \in Procs :
        LET l == procs[i]
            alone == GetTransformationAlone(l.in, l.env)
        IN /\ l.req.built => l.req = alone.req
           /\ l.ret.kind # "none" => l.ret \in alone.rets

\* C20: in every interleaving of the invocations on one service, the endpoint,
\* the project and the feature-view metadata are never written, each
\* invocation has a sink and a connection of its own, and each invocation
\* sends the request and leaves with the outcome it has when it runs alone.
C20_ConcurrentInvocationsIndependent ==
    /\ SharedStateUnwritten
    /\ OwnObjects
    /\ OutcomeAsAlone

\* Both invocations in flight at once, each with its outcome and its connection
\* still open: one view projected (one vector from the served file), the other
\* not (two vectors), and two different payloads sent.
C20_Witness ==
    /\ procs[1].pc = "unwind" /\ procs[2].pc = "unwind"
    /\ procs[1].in.featureView = "odfv_projected" /\ procs[2].in.featureView = "odfv"
    /\ procs[1].ret.kind = "return" /\ procs[1].ret.err = NoErr
    /\ procs[2].ret.kind = "return" /\ procs[2].ret.err = NoErr
    /\ Len(procs[1].ret.vectors.elems) = 1
    /\ Len(procs[2].ret.vectors.elems) = 2
    /\ procs[1].req.ArrowValue # procs[2].req.ArrowValue
    /\ conns[procs[1].conn].state = "open" /\ conns[procs[2].conn].state = "open"

(***************************************************************************)
(* Further claims about ExtractTransformationResponse, checked under Spec. *)
(***************************************************************************)
\* C21: no two vectors of a result returned by ExtractTransformationResponse
\* carry the same name, whatever the decoded record and the projection.
C21_UniqueNames ==
    (exRes.kind = "return" /\ exRes.err = NoErr) =>
        \A j, k \in DOMAIN exRes.vectors.elems :
            j # k => exRes.vectors.elems[j].Name # exRes.vectors.elems[k].Name

\* The strictly increasing maps from the positions of a result to the fields.
Embeddings(n, m) ==
    {f \in [1..n -> 1..m] : \A j, k \in 1..n : j < k => f[j] < f[k]}

\* C30: the vectors ExtractTransformationResponse returns are, in order, a
\* subsequence of the decoded record's fields: each vector carries the whole
\* name of its field and the record's column at that field's index.
C30_OrderAndIdentity ==
    (exRes.kind = "return" /\ exRes.err = NoErr) =>
        \E f \in Embeddings(Len(exRes.vectors.elems), Len(Decoded.rec.fields)) :
            \A k \in DOMAIN exRes.vectors.elems :
                /\ exRes.vectors.elems[k].Name = Decoded.rec.fields[f[k]].Name
                /\ exRes.vectors.elems[k].Values = Decoded.rec.columns[f[k]]

\* Of two fields the projection keeps the first, under its full name and with
\* the first column.
C30_Witness ==
    /\ exRes.kind = "return" /\ exRes.err = NoErr
    /\ in.featureView.Projection.declared /\ in.fullFeatureNames
    /\ in.numRows = 1
    /\ FieldNames(Decoded.rec.fields) = << <<"ns", "feat1">>, <<"ns", "feat2">> >>
    /\ Len(exRes.vectors.elems) = 1
    /\ exRes.vectors.elems[1].Name = <<"ns", "feat1">>
    /\ exRes.vectors.elems[1].Values = Decoded.rec.columns[1]
    /\ Decoded.rec.columns[1] # Decoded.rec.columns[2]

(***************************************************************************)
(* Further claims about the ByteSliceWriter, checked under SpecSink.       *)
(***************************************************************************)
\* C27: in every state reachable from an empty ByteSliceWriter by Write and
\* Seek calls, 0 <= offset <= len(buf).
C27_CursorInvariant == 0 <= w.offset /\ w.offset <= Len(w.buf)

\* C28: Write(p) with the cursor c inside a buffer of length L leaves a buffer
\* of length max(L, c + len(p)) that holds p at [c, c + len(p)) and its old
\* bytes everywhere else below L; and after writes alone on a fresh sink the
\* buffer is the written slices joined.
C28_WriteOverwritesInPlace ==
    /\ (/\ last.op = "Write"
        /\ 0 <= last.pre.offset /\ last.pre.offset <= Len(last.pre.buf))
       => LET c == last.pre.offset
              p == last.p
          IN /\ ~last.panic
             /\ Len(w.buf) = Max(Len(last.pre.buf), c + Len(p))
             /\ \A k \in 1..Len(p) : w.buf[c + k] = p[k]
             /\ \A k \in 1..Len(last.pre.buf) :
                   (k <= c \/ k > c + Len(p)) => w.buf[k] = last.pre.buf[k]
    /\ appended.onlyWrites => w.buf = appended.bytes

\* A write over the middle of a longer buffer: one old byte changed, the
\* others kept, the length as it was.
C28_Witness ==
    /\ last.op = "Write"
    /\ Len(last.pre.buf) = 3
    /\ last.pre.offset = 1
    /\ Len(last.p) = 1
    /\ last.p[1] # last.pre.buf[2]
    /\ Len(w.buf) = 3
    /\ w.buf[2] = last.p[1]
    /\ w.buf[1] = last.pre.buf[1] /\ w.buf[3] = last.pre.buf[3]

\* C29: a Seek call never changes the buffer, and one that returns an error
\* returns offset 0 and leaves the cursor where it was.
C29_SeekFrame ==
    last.op = "Seek" =>
        /\ w.buf = last.pre.buf
        /\ last.err # NoErr => (last.ret = 0 /\ w.offset = last.pre.offset)

\* An out-of-range Seek on a sink whose cursor is inside a non-empty buffer.
C29_Witness ==
    /\ last.op = "Seek"
    /\ last.whence = SeekStart
    /\ last.err = ErrInvalidSeek
    /\ last.ret = 0
    /\ Len(w.buf) = 2
    /\ w.offset = 1
    /\ last.pre = w

(***************************************************************************)
(* The request values of the HTTP server: repeatedValue.UnmarshalJSON and  *)
(* typecastToEntitySchemaType.  Their code is not in these files; what is  *)
(* here follows section 4.5 of the specification and the field names the   *)
(* tests use.                                                              *)
(*                                                                         *)
(* A JSON array is the sequence of its elements, an element [kind, v].  A  *)
(* number is [hi, lo, tenths], standing for hi * 2^32 + lo + tenths / 10   *)
(* with lo in the int32 range: it is whole when tenths = 0 and fits 32     *)
(* bits when moreover hi = 0.  An int64 is the pair [hi, lo], an int32 the *)
(* integer lo, a float64 the number itself.                                *)
(***************************************************************************)
MaxElems == 2       \* longest array of scalars, at the top or nested
MaxNested == 2      \* most nested arrays in one array

Number(hi, lo, tenths) == [kind |-> "number", v |-> [hi |-> hi, lo |-> lo, tenths |-> tenths]]
String(s) == [kind |-> "string", v |-> s]
Bool(b) == [kind |-> "bool", v |-> b]
Array(elems) == [kind |-> "array", v |-> elems]

Int64(hi, lo) == [hi |-> hi, lo |-> lo]

\* The JSON arrays handed to UnmarshalJSON: flat ones of up to MaxElems
\* scalars, nested ones of up to MaxNested elements (an outer element is an
\* array of 1..MaxElems numbers, ["foo"], an array of arrays, or a scalar), and
\* [0, 1, ..., 9].
Scalars ==
    {Number(0, 1, 0), Number(0, 2, 0), Number(1, 0, 0), Number(0, 1, 2), String("foo"),
     Bool(TRUE)}
NestedScalars == {Number(0, 1, 0), Number(0, 2, 0), Number(0, 1, 2)}
InnerArrays == {Array(a) : a \in SeqsUpTo(NestedScalars, MaxElems) \ {<<>>}}
OuterElements ==
    InnerArrays
        \cup {Array(<<String("foo")>>), Array(<<Array(<<Number(0, 1, 0)>>)>>), Number(0, 1, 0)}
Int32ScenarioLen == 10
Int32Scenario == [i \in 1..Int32ScenarioLen |-> Number(0, i - 1, 0)]
JsonArrays ==
    SeqsUpTo(Scalars, MaxElems) \cup (SeqsUpTo(OuterElements, MaxNested) \ {<<>>})
        \cup {Int32Scenario}

\* repeatedValue{}: no representation populated.
Representations ==
    {"int64Val", "int32Val", "doubleVal", "stringVal", "boolVal",
     "int64ListVal", "doubleListVal", "stringListVal", "boolListVal"}
EmptyRepeatedValue == [f \in Representations |-> NilSlice]
Populated(val) == {f \in Representations : ~val[f].isNil}

ErrTypeInference == "cannot infer one type for the elements of the array"
ErrNarrowRange == "value out of range for the declared type"
ErrNarrowType == "value cannot be cast to the declared type"

\* Variant that takes every number for a float64.
KindOfNumbersAsDouble(e) == IF e.kind = "number" THEN "double" ELSE e.kind

\* The kind of list an element asks for.
KindOf(e) ==
    IF e.kind = "number" THEN (IF e.v.tenths = 0 THEN "int64" ELSE "double") ELSE e.kind

\* Whether an element can be held by a list of kind k.
Fits(e, k) ==
    CASE k = "int64" -> e.kind = "number" /\ e.v.tenths = 0
      [] k = "double" -> e.kind = "number"
      [] k = "string" -> e.kind = "string"
      [] k = "bool" -> e.kind = "bool"
      [] OTHER -> FALSE

\* The element as a value of a list of kind k.
ValueAs(e, k) == IF k = "int64" THEN Int64(e.v.hi, e.v.lo) ELSE e.v

\* Variant that swallows the error.
InferenceFailureUnreported(data) == [val |-> EmptyRepeatedValue, err |-> NoErr]

\* The elements of data have no one kind: nothing is populated.
InferenceFailure(data) == [val |-> EmptyRepeatedValue, err |-> ErrTypeInference]

\* parse: the first element decides the kind; for an array of arrays, the
\* first element of the first nested array.  Result: the value and the error.
UnmarshalJSON(data) ==
    LET nested == data # <<>> /\ data[1].kind = "array"
        k == IF nested THEN KindOf(data[1].v[1]) ELSE KindOf(data[1])
        fails == InferenceFailure(data)
    IN IF data = <<>> THEN [val |-> EmptyRepeatedValue, err |-> NoErr]
       ELSE IF k = "array" THEN fails
       ELSE IF ~nested
       THEN IF \A i \in DOMAIN data : Fits(data[i], k)
            THEN [val |-> [EmptyRepeatedValue EXCEPT
                             ![k \o "Val"] = Slice([i \in DOMAIN data |-> ValueAs(data[i], k)])],
                  err |-> NoErr]
            ELSE fails
       ELSE IF \A i \in DOMAIN data :
                  /\ data[i].kind = "array"
                  /\ \A j \in DOMAIN data[i].v : Fits(data[i].v[j], k)
            THEN [val |-> [EmptyRepeatedValue EXCEPT
                             ![k \o "ListVal"] =
                                 Slice([i \in DOMAIN data |->
                                          [j \in DOMAIN data[i].v |-> ValueAs(data[i].v[j], k)]])],
                  err |-> NoErr]
            ELSE fails

\* prototypes.ValueType_Enum, the scalar types an entity declares.
ValueTypes == {"INT32", "INT64", "DOUBLE", "STRING", "BOOL"}
RepresentationOf(declared) ==
    CASE declared = "INT32" -> "int32Val"
      [] declared = "INT64" -> "int64Val"
      [] declared = "DOUBLE" -> "doubleVal"
      [] declared = "STRING" -> "stringVal"
      [] declared = "BOOL" -> "boolVal"

\* Variant that knows the representations parse fills, not the narrowed ones.
AlreadyMatchesParsedOnly(f, declared) == f = RepresentationOf(declared) /\ f # "int32Val"

\* The populated representation is the declared type's.
AlreadyMatches(f, declared) == f = RepresentationOf(declared)

\* Variant that leaves the int64 values where they were.
Int64ToInt32KeepingInt64(val) ==
    [val EXCEPT !.int32Val = Slice([i \in DOMAIN val.int64Val.elems |->
                                      val.int64Val.elems[i].lo])]

\* The int64 values as int32 values, the int64 representation cleared.
Int64ToInt32(val) ==
    [val EXCEPT !.int32Val = Slice([i \in DOMAIN val.int64Val.elems |->
                                      val.int64Val.elems[i].lo]),
                !.int64Val = NilSlice]

\* narrow: the populated representation converted to the declared type's.
\* Result: the value and the error; a value that fails is left as it was.
typecastToEntitySchemaType(val, declared) ==
    IF Populated(val) = {} THEN [val |-> val, err |-> NoErr]
    ELSE LET f == CHOOSE f \in Populated(val) : TRUE
         IN IF AlreadyMatches(f, declared) THEN [val |-> val, err |-> NoErr]
            ELSE IF f = "int64Val" /\ declared = "INT32"
            THEN IF \A i \in DOMAIN val.int64Val.elems : val.int64Val.elems[i].hi = 0
                 THEN [val |-> Int64ToInt32(val), err |-> NoErr]
                 ELSE [val |-> val, err |-> ErrNarrowRange]
            ELSE [val |-> val, err |-> ErrNarrowType]

(***************************************************************************)
(* SpecCoerce: one repeatedValue, parsed from a JSON array and then        *)
(* narrowed any number of times.                                           *)
(***************************************************************************)
NotCoerced == [op |-> "none", data |-> <<>>, declared |-> "", pre |-> EmptyRepeatedValue,
               err |-> NoErr]

CoerceInit ==
    /\ w = NewByteSliceWriter /\ last = NoCall /\ sinkPanic = FALSE /\ appended = NoWrites
    /\ GtIdle
    /\ ConcIdle
    /\ EntitiesIdle
    /\ u = EmptyRepeatedValue
    /\ coerced = NotCoerced

\* u.UnmarshalJSON(data) on a new repeatedValue
CoerceParse ==
    /\ coerced.op = "none"
    /\ \E data \in JsonArrays :
          LET r == UnmarshalJSON(data)
          IN /\ u' = r.val
             /\ coerced' = [op |-> "parse", data |-> data, declared |-> "", pre |-> u,
                            err |-> r.err]
    /\ UNCHANGED <<sinkVars, gtVars, concVars, cachedEntities, entityKeyTypeMap>>

\* typecastToEntitySchemaType(&u, declared), on a value that parsed
CoerceNarrow(declared) ==
    /\ coerced.op # "none"
    /\ coerced.op = "parse" => coerced.err = NoErr
    /\ LET r == typecastToEntitySchemaType(u, declared)
       IN /\ u' = r.val
          /\ coerced' = [op |-> "narrow", data |-> coerced.data, declared |-> declared,
                         pre |-> u, err |-> r.err]
    /\ UNCHANGED <<sinkVars, gtVars, concVars, cachedEntities, entityKeyTypeMap>>

CoerceNext ==
    \/ CoerceParse
    \/ \E declared \in ValueTypes : CoerceNarrow(declared)

SpecCoerce == CoerceInit /\ [][CoerceNext]_vars

(***************************************************************************)
(* Claims about the request values, checked under SpecCoerce.              *)
(***************************************************************************)
Parsed == coerced.op = "parse" /\ coerced.err = NoErr
Narrowed == coerced.op = "narrow"

\* The scalar that decides: the first element, or the first element of the
\* first nested array.
Deciding(data) == IF data[1].kind = "array" THEN data[1].v[1] ELSE data[1]

\* The representation the claim names for an array.
ExpectedRepresentation(data) ==
    LET e == Deciding(data)
        list == IF e.kind = "number" /\ e.v.tenths = 0 THEN "int64"
                ELSE IF e.kind = "number" THEN "double"
                ELSE e.kind
    IN list \o (IF data[1].kind = "array" THEN "ListVal" ELSE "Val")

\* A stored value is the value of a JSON scalar.
Denotes(value, e, representation) ==
    IF representation \in {"int64Val", "int64ListVal"}
    THEN e.kind = "number" /\ e.v.tenths = 0 /\ value = [hi |-> e.v.hi, lo |-> e.v.lo]
    ELSE value = e.v

\* C22: a parsed non-empty array populates the representation its first
\* element names (int64, float64, string or bool list; for an array of arrays
\* the list of lists named by the first element of the first nested array),
\* and that representation holds the array's values in order.
C22_TypeInference ==
    (Parsed /\ coerced.data # <<>>) =>
        LET data == coerced.data
            r == ExpectedRepresentation(data)
        IN /\ Populated(u) = {r}
           /\ Len(u[r].elems) = Len(data)
           /\ \A i \in DOMAIN data :
                 IF data[1].kind = "array"
                 THEN /\ Len(u[r].elems[i]) = Len(data[i].v)
                      /\ \A j \in DOMAIN data[i].v :
                            Denotes(u[r].elems[i][j], data[i].v[j], r)
                 ELSE Denotes(u[r].elems[i], data[i], r)

\* [[1, 2], [2, 1]] parsed into the int64 list of lists.
C22_Witness ==
    /\ Parsed
    /\ coerced.data = <<Array(<<Number(0, 1, 0), Number(0, 2, 0)>>),
                        Array(<<Number(0, 2, 0), Number(0, 1, 0)>>)>>
    /\ u.int64ListVal = Slice(<< <<Int64(0, 1), Int64(0, 2)>>, <<Int64(0, 2), Int64(0, 1)>> >>)
    /\ Populated(u) = {"int64ListVal"}

\* The elements of an array, nested ones included, are not of one JSON kind.
RECURSIVE ScalarsIn(_)
ScalarsIn(data) ==
    IF data = <<>> THEN {}
    ELSE (IF Head(data).kind = "array" THEN ScalarsIn(Head(data).v) ELSE {Head(data)})
         \cup ScalarsIn(Tail(data))
MixedKinds(data) ==
    \/ \E a, b \in ScalarsIn(data) : a.kind # b.kind
    \/ \E i, j \in DOMAIN data : data[i].kind = "array" /\ data[j].kind # "array"

\* C23: a repeatedValue never has two representations populated, after parse
\* and after every narrow; an empty array populates none; and an array of
\* mixed kinds is answered with an error and nothing populated.
C23_SingleRepresentation ==
    /\ Cardinality(Populated(u)) <= 1
    /\ (Parsed /\ coerced.data = <<>>) => Populated(u) = {}
    /\ (coerced.op = "parse" /\ MixedKinds(coerced.data)) =>
          (coerced.err # NoErr /\ Populated(u) = {})

\* [1, "foo"] refused.
C23_Witness ==
    /\ coerced.op = "parse"
    /\ coerced.data = <<Number(0, 1, 0), String("foo")>>
    /\ coerced.err = ErrTypeInference
    /\ Populated(u) = {}

\* C24: narrowing to INT32 a value whose int64 representation holds values
\* that all fit 32 bits clears the int64 representation and populates the
\* int32 representation with the same values in the same order.
C24_NarrowInt64ToInt32 ==
    (/\ Narrowed
     /\ coerced.declared = "INT32"
     /\ ~coerced.pre.int64Val.isNil
     /\ \A i \in DOMAIN coerced.pre.int64Val.elems : coerced.pre.int64Val.elems[i].hi = 0)
    => (/\ coerced.err = NoErr
        /\ u.int64Val = NilSlice
        /\ ~u.int32Val.isNil
        /\ Len(u.int32Val.elems) = Len(coerced.pre.int64Val.elems)
        /\ \A i \in DOMAIN u.int32Val.elems :
              u.int32Val.elems[i] = coerced.pre.int64Val.elems[i].lo)

\* 0..9 narrowed to INT32.
C24_Witness ==
    /\ Narrowed
    /\ coerced.declared = "INT32"
    /\ coerced.data = Int32Scenario
    /\ coerced.pre.int64Val = Slice([i \in 1..Int32ScenarioLen |-> Int64(0, i - 1)])
    /\ u.int64Val = NilSlice
    /\ u.int32Val = Slice([i \in 1..Int32ScenarioLen |-> i - 1])

\* C25: a narrow to the type the populated representation already has leaves
\* the value unchanged, and narrowing the result of a successful narrow again
\* to the same type gives that result again.
C25_NarrowIdempotent ==
    /\ (Narrowed /\ Populated(coerced.pre) = {RepresentationOf(coerced.declared)})
       => (coerced.err = NoErr /\ u = coerced.pre)
    /\ (Narrowed /\ coerced.err = NoErr)
       => typecastToEntitySchemaType(u, coerced.declared) = [val |-> u, err |-> NoErr]

\* The second of two narrowings to INT32: the int32 representation stays.
C25_Witness ==
    /\ Narrowed
    /\ coerced.declared = "INT32"
    /\ coerced.err = NoErr
    /\ ~coerced.pre.int32Val.isNil
    /\ u = coerced.pre
    /\ Len(u.int32Val.elems) = 2

(***************************************************************************)
(* The entity key type map.  model.NewEntityFromProto is in                *)
(* go/internal/feast/model/entity.go; FeatureStore.GetEntityKeyTypeMaps is *)
(* known by its tests: it lists the entities the registry has cached for   *)
(* the project and maps each join key to the declared value type.          *)
(***************************************************************************)
CachedEntityNames == {"entity1", "entity2", "entity3"}
JoinKeys == {"joinKey1", "joinKey2"}
EntityValueTypes == {"INT64", "INT32"}

\* core.Entity
EntityProtos ==
    [Spec : [Name : CachedEntityNames, JoinKey : JoinKeys, ValueType : EntityValueTypes]]

\* registry.CachedEntities[project]: the protos by entity name, at least one.
ProjectCaches ==
    UNION {{c \in [names -> EntityProtos] : \A n \in names : c[n].Spec.Name = n} :
              names \in SUBSET CachedEntityNames \ {{}}}

\* registry.CachedEntities: no entry for the project, or its entities.
Caches == {<<>>} \cup {[p \in {Project} |-> c] : c \in ProjectCaches}

ErrNoCachedEntities == "no cached entities found for project"

\* Variant that takes the entity's name for its join key.
NewEntityFromProtoKeyedByName(proto) ==
    [Name |-> proto.Spec.Name, JoinKey |-> proto.Spec.Name, ValueType |-> proto.Spec.ValueType]

\* NewEntityFromProto: the three fields of the spec, copied.
NewEntityFromProto(proto) ==
    [Name |-> proto.Spec.Name,
     JoinKey |-> proto.Spec.JoinKey,
     ValueType |-> proto.Spec.ValueType]

\* The entities cached for a project, as model entities; an error when the
\* cache has no entry for the project.
ListEntities(cache, project) ==
    IF project \notin DOMAIN cache
    THEN [entities |-> {}, err |-> ErrNoCachedEntities]
    ELSE [entities |-> {NewEntityFromProto(cache[project][n]) : n \in DOMAIN cache[project]},
          err |-> NoErr]

\* The maps a loop "m[entity.JoinKey] = entity.ValueType" over the entities
\* can end with: the order of the loop is not fixed, so entities that share
\* a join key leave the type of any one of them.
KeyTypeMaps(entities) ==
    {m \in [{e.JoinKey : e \in entities} -> EntityValueTypes] :
        \A k \in DOMAIN m : \E e \in entities : e.JoinKey = k /\ e.ValueType = m[k]}

NotCalled == [called |-> FALSE]

EntitiesInit ==
    /\ w = NewByteSliceWriter /\ last = NoCall /\ sinkPanic = FALSE /\ appended = NoWrites
    /\ GtIdle
    /\ ConcIdle
    /\ CoerceIdle
    /\ cachedEntities \in Caches
    /\ entityKeyTypeMap = NotCalled

\* entityKeyTypeMap, err := fs.GetEntityKeyTypeMaps()
GetEntityKeyTypeMaps ==
    /\ ~entityKeyTypeMap.called
    /\ LET l == ListEntities(cachedEntities, Project)
       IN IF l.err # NoErr
          THEN entityKeyTypeMap' = [called |-> TRUE, map |-> <<>>, err |-> l.err]
          ELSE \E m \in KeyTypeMaps(l.entities) :
                  entityKeyTypeMap' = [called |-> TRUE, map |-> m, err |-> NoErr]
    /\ UNCHANGED <<sinkVars, gtVars, concVars, u, coerced, cachedEntities>>

EntitiesNext == GetEntityKeyTypeMaps

SpecEntities == EntitiesInit /\ [][EntitiesNext]_vars

\* The protos cached for the project.
CachedProtos ==
    IF Project \in DOMAIN cachedEntities
    THEN {cachedEntities[Project][n] : n \in DOMAIN cachedEntities[Project]}
    ELSE {}

Returning == pc \in {"unwind", "done"}

\* Every column is converted, the record is built and written to the sink,
\* and the request carries the sink's bytes.
Serialized ==
    /\ reqLeft = {} /\ entLeft = {}
    /\ Len(inputColumns) = NumFeatures + NumRequest + NumEntity
    /\ inputRecord.built
    /\ arrowWriter.started
    /\ req.built
    /\ req.ArrowValue = w.buf

\* The invocation ended in the conversions or in the serialization.
FailedBeforeDial == Returning /\ ~req.built
SerializationFailed == Returning /\ inputRecord.built /\ ~req.built

C31_Steps ==
    /\ (inputColumns' # inputColumns \/ inputRecord.rec # inputRecord'.rec \/ w' # w
        \/ arrowWriter' # arrowWriter \/ req' # req)
       => (conn.dials = 0 /\ conn'.dials = 0)
    /\ conn'.dials # conn.dials => (Serialized /\ calls = 0 /\ exRes = NoReturn)
    /\ calls' # calls => (conn.dials = 1 /\ conn.state = "open" /\ exRes = NoReturn)
    /\ exRes' # exRes => (calls = 1 /\ conn.state = "open" /\ transportErr = NoErr)

C31_States ==
    /\ FailedBeforeDial => (conn.dials = 0 /\ conn.state = "none" /\ calls = 0)
    /\ transportErr # NoErr => exRes = NoReturn
    /\ (transportErr # NoErr /\ conn.state = "none") => calls = 0

\* C31: within one invocation the conversions and the serialization into the
\* sink come before the dial, the dial before the call, and the decoding only
\* after a call that succeeded: an invocation that fails in a conversion or in
\* the serialization dials nothing, and one whose dial or call fails decodes
\* nothing.
C31_StepOrdering == []C31_States /\ [][C31_Steps]_vars

\* An invocation through all its steps: serialized, dialled once, called once,
\* decoded, returned.
C31_Witness ==
    /\ pc = "done"
    /\ Serialized
    /\ NumRequest > 0
    /\ conn.dials = 1
    /\ calls = 1
    /\ transportErr = NoErr
    /\ exRes.kind = "return"
    /\ ret = exRes

====
